---- MODULE Spec2Model ----
(***************************************************************************)
(* Red-black tree of src/red_black_tree.py.                                *)
(*                                                                         *)
(* The RedBlackTree object and the RBNode objects it owns are one record:  *)
(* root and black_height are the tree's fields, and data, color, parent,   *)
(* left, right are the nodes' fields, as functions of the node.  A node is *)
(* a number of Nodes and the absent node is None.  Every method is an      *)
(* operator from such a record to the record after the call; the record    *)
(* also carries ret, the value the call returns, err, set when the call    *)
(* reads an attribute of None (Python raises AttributeError and the call   *)
(* stops where it is, keeping the assignments made so far), trace, the     *)
(* method calls and branches of the call in the order they happen, and     *)
(* depths, the depth of the node of each rebalancing call when it is made. *)
(***************************************************************************)
EXTENDS Integers, Sequences, FiniteSets

\* Bounds of the model.
MaxNodes == 10
MaxVal == 3
MaxBlackHeight == 4

Nodes == 1..MaxNodes
Vals == 1..MaxVal

\* RBNode.color: "A color of 0 is red, a color of 1 is black."
RED == 0
BLACK == 1
\* Python's None (an absent node, and the value insert returns).
None == 0
\* Python's False and True as returned by search and delete.
False == -1
True == -2

VARIABLES self, stored, last, err

vars == <<self, stored, last, err>>

\* AttributeError: the call stops here with the state it has reached.
Raise(t) == [t EXCEPT !.err = TRUE]

\* The call reaches the place named e (nothing is reached once it has raised).
Log(t, e) == IF t.err THEN t ELSE [t EXCEPT !.trace = Append(@, e)]

\* The number of parent links from n up to a node without a parent (no more
\* than fuel of them are followed).
RECURSIVE Depth(_, _, _)
Depth(t, n, fuel) ==
    IF fuel = 0 \/ t.parent[n] = None THEN 0
    ELSE 1 + Depth(t, t.parent[n], fuel - 1)

\* The call reaches the place named e, the entry of a rebalancing method
\* called on node n: the depth n has at that moment is recorded as well.
LogAt(t, e, n) ==
    IF t.err THEN t
    ELSE [t EXCEPT !.trace = Append(@, e),
                   !.depths = Append(@, Depth(t, n, MaxNodes))]

\* n.color = c, as a statement that follows a call: skipped if the call raised.
Colored(t, n, c) == IF t.err THEN t ELSE [t EXCEPT !.color[n] = c]

\* The nodes of the subtree rooted at n.
RECURSIVE Subtree(_, _)
Subtree(t, n) ==
    IF n = None THEN {}
    ELSE {n} \cup Subtree(t, t.left[n]) \cup Subtree(t, t.right[n])

\* The nodes the tree owns: those reachable from root by left/right links.
Reach(t) == Subtree(t, t.root)

\* A fresh object: a node the tree does not own.
Fresh(t) == CHOOSE n \in Nodes \ Reach(t) : \A m \in Nodes \ Reach(t) : n <= m

\* RBNode.__init__(data, parent): a red node without children.
RBNode(t, n, d, p) ==
    [t EXCEPT !.data[n] = d, !.color[n] = RED, !.parent[n] = p,
              !.left[n] = None, !.right[n] = None]

\* RedBlackTree.__init__
EmptyTree ==
    [root |-> None, black_height |-> 0,
     data |-> [n \in Nodes |-> 0], color |-> [n \in Nodes |-> RED],
     parent |-> [n \in Nodes |-> None], left |-> [n \in Nodes |-> None],
     right |-> [n \in Nodes |-> None], err |-> FALSE, ret |-> None,
     trace |-> <<>>, depths |-> <<>>]

----------------------------------------------------------------------------
\* A faulty rotation_middle_left: the middle subtree keeps its old parent link.
rotation_middle_left_no_backlink(t, current, parent) ==
    [t EXCEPT !.right[parent] = t.left[current]]

\* rotation, left rotation: the middle subtree goes from current to parent.
rotation_middle_left(t, current, parent) ==
    LET t1 == [t EXCEPT !.right[parent] = t.left[current]] IN
    IF t1.right[parent] # None
    THEN [t1 EXCEPT !.parent[t1.right[parent]] = parent]
    ELSE t1

\* rotation, right rotation: the middle subtree goes from current to parent
\* (when there is one, current.parent is also set to None for the moment).
rotation_middle_right(t, current, parent) ==
    LET t1 == [t EXCEPT !.left[parent] = t.right[current]] IN
    IF t1.left[parent] # None
    THEN [t1 EXCEPT !.parent[t1.left[parent]] = parent, !.parent[current] = None]
    ELSE t1

\* A faulty rotation_promote: the new root keeps its old parent link.
rotation_promote_stale_parent(t, current, parent) ==
    IF t.root = parent
    THEN [t EXCEPT !.root = current]
    ELSE LET grandparent == t.parent[parent] IN
         IF grandparent = None THEN Raise(t)
         ELSE LET t1 == IF t.left[grandparent] = parent
                        THEN [t EXCEPT !.left[grandparent] = current]
                        ELSE [t EXCEPT !.right[grandparent] = current]
              IN [t1 EXCEPT !.parent[current] = grandparent]

\* rotation, either branch: current takes parent's place under the
\* grandparent, or becomes the root.
rotation_promote(t, current, parent) ==
    IF t.root = parent
    THEN [t EXCEPT !.root = current, !.parent[current] = None]
    ELSE LET grandparent == t.parent[parent] IN
         IF grandparent = None THEN Raise(t)
         ELSE LET t1 == IF t.left[grandparent] = parent
                        THEN [t EXCEPT !.left[grandparent] = current]
                        ELSE [t EXCEPT !.right[grandparent] = current]
              IN [t1 EXCEPT !.parent[current] = grandparent]

\* A faulty rotation_below_left: the two nodes also exchange their colors.
rotation_below_left_recolors(t, current, parent) ==
    IF t.err THEN t
    ELSE [t EXCEPT !.left[current] = parent, !.parent[parent] = current,
                   !.color[current] = t.color[parent],
                   !.color[parent] = t.color[current]]

\* rotation, left rotation: parent becomes the left child of current.
rotation_below_left(t, current, parent) ==
    IF t.err THEN t
    ELSE [t EXCEPT !.left[current] = parent, !.parent[parent] = current]

\* A faulty rotation_below_right: parent keeps its old parent link.
rotation_below_right_no_uplink(t, current, parent) ==
    IF t.err THEN t
    ELSE [t EXCEPT !.right[current] = parent]

\* rotation, right rotation: parent becomes the right child of current.
rotation_below_right(t, current, parent) ==
    IF t.err THEN t
    ELSE [t EXCEPT !.right[current] = parent, !.parent[parent] = current]

\* rotation(current): rotates current with its parent.
rotation(t, current) ==
    IF t.err THEN t
    ELSE IF current = None THEN Raise(Log(t, "rotation"))
    ELSE LET parent == t.parent[current] IN
    IF parent = None THEN Log(t, "rotation")
    ELSE IF t.right[parent] = current
    THEN rotation_below_left(
             rotation_promote(
                 rotation_middle_left(Log(t, "rotation"), current, parent),
                 current, parent),
             current, parent)
    ELSE rotation_below_right(
             rotation_promote(
                 rotation_middle_right(Log(t, "rotation"), current, parent),
                 current, parent),
             current, parent)

----------------------------------------------------------------------------
RECURSIVE insert_rebalance(_, _)

\* A faulty insert_rebalance_recolor: black_height is not updated at the root.
insert_rebalance_recolor_no_count(t, parent, uncle, grandparent) ==
    LET t1 == [Log(t, "recolor") EXCEPT
                   !.color[parent] = BLACK, !.color[uncle] = BLACK,
                   !.color[grandparent] = RED] IN
    IF grandparent = t1.root
    THEN [t1 EXCEPT !.color[grandparent] = BLACK]
    ELSE IF t1.parent[grandparent] = t1.root THEN t1
    ELSE IF t1.parent[grandparent] = None THEN Raise(t1)
    ELSE IF t1.color[t1.parent[grandparent]] = RED
         THEN insert_rebalance(t1, grandparent)
         ELSE t1

\* insert_rebalance, the uncle is red (case 1): recolor, then go on from the
\* grandparent when it has a red parent.
insert_rebalance_recolor(t, parent, uncle, grandparent) ==
    LET t1 == [Log(t, "recolor") EXCEPT
                   !.color[parent] = BLACK, !.color[uncle] = BLACK,
                   !.color[grandparent] = RED] IN
    IF grandparent = t1.root
    THEN [t1 EXCEPT !.color[grandparent] = BLACK, !.black_height = @ + 1]
    ELSE IF t1.parent[grandparent] = t1.root THEN t1
    ELSE IF t1.parent[grandparent] = None THEN Raise(t1)
    ELSE IF t1.color[t1.parent[grandparent]] = RED
         THEN insert_rebalance(t1, grandparent)
         ELSE t1

\* A faulty insert_rebalance_rotate: the promoted node is not colored black.
insert_rebalance_rotate_no_black(t, current, parent, grandparent) ==
    LET inside == \/ parent = t.left[grandparent] /\ current = t.right[parent]
                  \/ parent = t.right[grandparent] /\ current = t.left[parent]
        parent1 == IF inside THEN current ELSE parent
    IN Colored(rotation(IF inside THEN rotation(Log(t, "inside"), current)
                        ELSE Log(t, "outside"),
                        parent1),
               grandparent, RED)

\* A faulty insert_rebalance_rotate: the last rotation is undone and made again.
insert_rebalance_rotate_again(t, current, parent, grandparent) ==
    LET inside == \/ parent = t.left[grandparent] /\ current = t.right[parent]
                  \/ parent = t.right[grandparent] /\ current = t.left[parent]
        parent1 == IF inside THEN current ELSE parent
    IN Colored(Colored(rotation(rotation(rotation(
                                    IF inside
                                    THEN rotation(Log(t, "inside"), current)
                                    ELSE Log(t, "outside"),
                                    parent1),
                                grandparent),
                            parent1),
                       grandparent, RED),
               parent1, BLACK)

\* A faulty insert_rebalance_rotate: the grandparent keeps its color.
insert_rebalance_rotate_no_red(t, current, parent, grandparent) ==
    LET inside == \/ parent = t.left[grandparent] /\ current = t.right[parent]
                  \/ parent = t.right[grandparent] /\ current = t.left[parent]
        parent1 == IF inside THEN current ELSE parent
    IN Colored(rotation(IF inside THEN rotation(Log(t, "inside"), current)
                        ELSE Log(t, "outside"),
                        parent1),
               parent1, BLACK)

\* insert_rebalance, the uncle is black or absent (cases 2 and 3): an inside
\* child is rotated outside (and current and parent swap names), then the
\* parent is rotated above the grandparent and the two are recolored.
insert_rebalance_rotate(t, current, parent, grandparent) ==
    LET inside == \/ parent = t.left[grandparent] /\ current = t.right[parent]
                  \/ parent = t.right[grandparent] /\ current = t.left[parent]
        parent1 == IF inside THEN current ELSE parent
    IN Colored(Colored(rotation(IF inside THEN rotation(Log(t, "inside"), current)
                                ELSE Log(t, "outside"),
                                parent1),
                       grandparent, RED),
               parent1, BLACK)

\* insert_rebalance(current): current is red and so is its parent.
insert_rebalance(t0, current) ==
    LET t == LogAt(t0, "insert_rebalance", current)
        parent == t.parent[current] IN
    IF parent = None THEN Raise(t) ELSE
    LET grandparent == t.parent[parent] IN
    IF grandparent = None THEN Raise(t) ELSE
    LET uncle == IF t.left[grandparent] = parent
                 THEN t.right[grandparent] ELSE t.left[grandparent] IN
    IF uncle # None /\ t.color[uncle] = RED
    THEN insert_rebalance_recolor(t, parent, uncle, grandparent)
    ELSE insert_rebalance_rotate(t, current, parent, grandparent)

\* A faulty insert_descend: the comparison the wrong way round.
RECURSIVE insert_descend_reversed(_, _, _)
insert_descend_reversed(t, current, d) ==
    IF d > t.data[current]
    THEN IF t.left[current] # None
         THEN insert_descend_reversed(t, t.left[current], d) ELSE current
    ELSE IF t.right[current] # None
         THEN insert_descend_reversed(t, t.right[current], d) ELSE current

\* insert, the while loop: the node under which the new node is attached.
RECURSIVE insert_descend(_, _, _)
insert_descend(t, current, d) ==
    IF d < t.data[current]
    THEN IF t.left[current] # None
         THEN insert_descend(t, t.left[current], d) ELSE current
    ELSE IF t.right[current] # None
         THEN insert_descend(t, t.right[current], d) ELSE current

\* A faulty insert: the red parent of the new node is never repaired.
insert_no_rebalance(t, d) ==
    IF t.root = None
    THEN LET new_node == Fresh(t)
             t1 == RBNode(t, new_node, d, None)
         IN [t1 EXCEPT !.color[new_node] = BLACK, !.root = new_node,
                       !.black_height = @ + 1, !.ret = None]
    ELSE LET at == insert_descend(t, t.root, d)
             current == Fresh(t)
             t1 == RBNode(t, current, d, at)
         IN IF d < t.data[at]
            THEN [t1 EXCEPT !.left[at] = current, !.ret = None]
            ELSE [t1 EXCEPT !.right[at] = current, !.ret = None]

\* insert(data)
insert(t, d) ==
    IF t.root = None
    THEN LET new_node == Fresh(t)
             t1 == RBNode(t, new_node, d, None)
         IN [t1 EXCEPT !.color[new_node] = BLACK, !.root = new_node,
                       !.black_height = @ + 1, !.ret = None]
    ELSE LET at == insert_descend(t, t.root, d)
             current == Fresh(t)
             t1 == RBNode(t, current, d, at)
             t2 == IF d < t.data[at]
                   THEN [t1 EXCEPT !.left[at] = current, !.ret = None]
                   ELSE [t1 EXCEPT !.right[at] = current, !.ret = None]
         IN IF t2.color[t2.parent[current]] = RED
            THEN insert_rebalance(t2, current)
            ELSE t2

----------------------------------------------------------------------------
\* A faulty search loop: a smaller value is looked for on the right.
RECURSIVE search_from_wrong_side(_, _, _)
search_from_wrong_side(t, current, d) ==
    IF current = None THEN False
    ELSE IF d = t.data[current] THEN current
    ELSE IF d < t.data[current] THEN search_from_wrong_side(t, t.right[current], d)
    ELSE search_from_wrong_side(t, t.left[current], d)

\* search(data), the while loop from current: the node found, or False.
RECURSIVE search_from(_, _, _)
search_from(t, current, d) ==
    IF current = None THEN False
    ELSE IF d = t.data[current] THEN current
    ELSE IF d < t.data[current] THEN search_from(t, t.left[current], d)
    ELSE search_from(t, t.right[current], d)

\* search(data)
search(t, d) == search_from(t, t.root, d)

\* A faulty search_call: a node that is found is rotated above its parent.
search_call_rotating(t, d) ==
    IF search(t, d) = False THEN [t EXCEPT !.ret = False]
    ELSE [rotation(t, search(t, d)) EXCEPT !.ret = search(t, d)]

\* search(data) as a call on the tree: it returns what the loop ends with and
\* assigns to no field of the tree or of a node.
search_call(t, d) == [t EXCEPT !.ret = search(t, d)]

----------------------------------------------------------------------------
\* delete_rebalance, case 4 with the sibling on the right, after the rotation:
\* sibling takes parent's color, parent and sibling's outside child turn black.
delete_rebalance_right_recolor(t, parent, sibling) ==
    IF t.err THEN t
    ELSE LET t1 == [t EXCEPT !.color[sibling] = t.color[parent],
                             !.color[parent] = BLACK]
         IN IF t1.right[sibling] = None THEN Raise(t1)
            ELSE [t1 EXCEPT !.color[t1.right[sibling]] = BLACK]

\* The mirror, with the sibling on the left.
delete_rebalance_left_recolor(t, parent, sibling) ==
    IF t.err THEN t
    ELSE LET t1 == [t EXCEPT !.color[sibling] = t.color[parent],
                             !.color[parent] = BLACK]
         IN IF t1.left[sibling] = None THEN Raise(t1)
            ELSE [t1 EXCEPT !.color[t1.left[sibling]] = BLACK]

\* A faulty delete_rebalance_right: the nephew is taken on the outside.
delete_rebalance_right_outside_nephew(t, parent, sibling) ==
    LET outside_black == \/ t.right[sibling] = None
                         \/ t.color[t.right[sibling]] = BLACK
        nephew == t.right[sibling]
        sibling1 == IF outside_black THEN nephew ELSE sibling
    IN delete_rebalance_right_recolor(
           rotation(Log(IF outside_black
                        THEN Colored(Colored(rotation(Log(t, "nephew"), nephew),
                                             nephew, BLACK),
                                     sibling, RED)
                        ELSE t,
                        "final"),
                    sibling1),
           parent, sibling1)

\* delete_rebalance, the sibling on the right of parent with at least one red
\* child.  Case 3: the outside child is black, so the inside nephew is rotated
\* above the sibling, recolored, and becomes the sibling.  Case 4: the sibling
\* is rotated above parent.
delete_rebalance_right(t, parent, sibling) ==
    LET outside_black == \/ t.right[sibling] = None
                         \/ t.color[t.right[sibling]] = BLACK
        nephew == t.left[sibling]
        sibling1 == IF outside_black THEN nephew ELSE sibling
    IN delete_rebalance_right_recolor(
           rotation(Log(IF outside_black
                        THEN Colored(Colored(rotation(Log(t, "nephew"), nephew),
                                             nephew, BLACK),
                                     sibling, RED)
                        ELSE t,
                        "final"),
                    sibling1),
           parent, sibling1)

\* delete_rebalance, the sibling on the left of parent: the mirror.
delete_rebalance_left(t, parent, sibling) ==
    LET outside_black == \/ t.left[sibling] = None
                         \/ t.color[t.left[sibling]] = BLACK
        nephew == t.right[sibling]
        sibling1 == IF outside_black THEN nephew ELSE sibling
    IN delete_rebalance_left_recolor(
           rotation(Log(IF outside_black
                        THEN Colored(Colored(rotation(Log(t, "nephew"), nephew),
                                             nephew, BLACK),
                                     sibling, RED)
                        ELSE t,
                        "final"),
                    sibling1),
           parent, sibling1)

\* A faulty delete_rebalance_red_sibling: the rotation is undone and made again.
delete_rebalance_red_sibling_again(t, parent, sibling) ==
    IF t.color[sibling] = RED
    THEN Colored(Colored(rotation(rotation(rotation(Log(t, "red_sibling"),
                                                    sibling),
                                           parent),
                                  sibling),
                         parent, RED),
                 sibling, BLACK)
    ELSE t

\* A faulty delete_rebalance_red_sibling: the rotation without the recoloring.
delete_rebalance_red_sibling_no_recolor(t, parent, sibling) ==
    IF t.color[sibling] = RED
    THEN rotation(Log(t, "red_sibling"), sibling)
    ELSE t

\* delete_rebalance, case 1: a red sibling is rotated above parent, parent
\* turns red and the sibling black.
delete_rebalance_red_sibling(t, parent, sibling) ==
    IF t.color[sibling] = RED
    THEN Colored(Colored(rotation(Log(t, "red_sibling"), sibling), parent, RED),
                 sibling, BLACK)
    ELSE t

RECURSIVE delete_rebalance(_, _)

\* The color the sibling has when the recursive call is made.
SiblingSeen(t, sibling) ==
    Log(t, IF t.color[sibling] = RED
           THEN "recurse_sibling_red" ELSE "recurse_sibling_black")

\* A faulty delete_rebalance_recurse: the sibling is colored red before the
\* recursive call as well as after it.
delete_rebalance_recurse_red_first(t, parent, sibling) ==
    Colored(Log(delete_rebalance(
                    SiblingSeen(Log([t EXCEPT !.color[sibling] = RED], "recurse"),
                                sibling),
                    parent),
                "sibling_red"),
            sibling, RED)

\* delete_rebalance, case 2a (parent, sibling and the sibling's children are
\* black): delete_rebalance(parent) is called, then the sibling turns red.
delete_rebalance_recurse(t, parent, sibling) ==
    Colored(Log(delete_rebalance(SiblingSeen(Log(t, "recurse"), sibling),
                                 parent),
                "sibling_red"),
            sibling, RED)

\* delete_rebalance after case 1: the sibling (looked up again, it is the same
\* as before when case 1 did not apply) is black.
delete_rebalance_black_sibling(t, current, parent) ==
    IF t.err THEN t ELSE
    LET sibling_parent_relationship ==
            IF t.left[parent] = current THEN "right" ELSE "left"
        sibling == IF t.left[parent] = current
                   THEN t.right[parent] ELSE t.left[parent] IN
    IF sibling = None THEN Raise(t) ELSE
    IF /\ (t.left[sibling] = None \/ t.color[t.left[sibling]] = BLACK)
       /\ (t.right[sibling] = None \/ t.color[t.right[sibling]] = BLACK)
    THEN IF t.color[parent] = BLACK
         THEN delete_rebalance_recurse(t, parent, sibling)
         ELSE \* case 2b
              [Log(Log(t, "red_parent"), "sibling_red") EXCEPT
                   !.color[sibling] = RED, !.color[parent] = BLACK]
    ELSE IF sibling_parent_relationship = "right"
         THEN delete_rebalance_right(t, parent, sibling)
         ELSE delete_rebalance_left(t, parent, sibling)

\* delete_rebalance(current): current is black and about to lose one black
\* node on its paths.  Its return value (always True) is not used by the caller.
delete_rebalance(t0, current) ==
    IF t0.err THEN t0 ELSE
    LET t == LogAt(t0, "delete_rebalance", current) IN
    IF t.left[current] # None /\ t.color[t.left[current]] = RED
    THEN [Log(t, "red_child") EXCEPT !.color[t.left[current]] = BLACK]
    ELSE IF t.right[current] # None /\ t.color[t.right[current]] = RED
    THEN [Log(t, "red_child") EXCEPT !.color[t.right[current]] = BLACK]
    ELSE IF current = t.root THEN Log(t, "root")
    ELSE LET parent == t.parent[current] IN
    IF parent = None THEN Raise(t) ELSE
    LET sibling == IF t.left[parent] = current
                   THEN t.right[parent] ELSE t.left[parent] IN
    IF sibling = None THEN Raise(t)
    ELSE delete_rebalance_black_sibling(
             delete_rebalance_red_sibling(t, parent, sibling), current, parent)

\* delete_helper: "Rebalance if needed (if the node being deleted is black)".
delete_rebalance_if_black(t, current) ==
    IF t.color[current] = BLACK THEN delete_rebalance(t, current) ELSE t

\* delete_helper, no children: current is unlinked from parent.
delete_unlink(t, current, parent) ==
    IF t.err THEN t
    ELSE LET t1 == IF t.left[parent] = current
                   THEN [t EXCEPT !.left[parent] = None]
                   ELSE [t EXCEPT !.right[parent] = None]
         IN [t1 EXCEPT !.parent[current] = None, !.ret = True]

\* A faulty delete_splice: the child is always made the right child of parent.
delete_splice_right_side(t, current, parent, child) ==
    IF t.err THEN t
    ELSE IF child = None THEN Raise(t)
    ELSE IF parent # None
    THEN IF t.left[parent] = current
         THEN [t EXCEPT !.left[parent] = None, !.right[parent] = child,
                        !.parent[child] = parent, !.ret = True]
         ELSE [t EXCEPT !.right[parent] = child, !.parent[child] = parent,
                        !.ret = True]
    ELSE [t EXCEPT !.root = child, !.parent[child] = None, !.ret = True]

\* A faulty delete_splice: the parent's link is cleared and the child is lost.
delete_splice_drop_child(t, current, parent, child) ==
    IF t.err THEN t
    ELSE IF child = None THEN Raise(t)
    ELSE IF parent # None
    THEN IF t.left[parent] = current
         THEN [t EXCEPT !.left[parent] = None, !.ret = True]
         ELSE [t EXCEPT !.right[parent] = None, !.ret = True]
    ELSE [t EXCEPT !.root = child, !.parent[child] = None, !.ret = True]

\* delete_helper, one child: the child takes the place of current under
\* parent, or as root.
delete_splice(t, current, parent, child) ==
    IF t.err THEN t
    ELSE IF child = None THEN Raise(t)
    ELSE IF parent # None
    THEN IF t.left[parent] = current
         THEN [t EXCEPT !.left[parent] = child, !.parent[child] = parent,
                        !.ret = True]
         ELSE [t EXCEPT !.right[parent] = child, !.parent[child] = parent,
                        !.ret = True]
    ELSE [t EXCEPT !.root = child, !.parent[child] = None, !.ret = True]

\* delete_helper, right child only, and left child only: the child is read
\* after the rebalancing.
delete_splice_right(t, current, parent) ==
    IF t.err THEN t ELSE delete_splice(t, current, parent, t.right[current])

delete_splice_left(t, current, parent) ==
    IF t.err THEN t ELSE delete_splice(t, current, parent, t.left[current])

\* delete_helper, the two loops: the last node of the right (left) chain
\* from n and the number of links followed.
RECURSIVE rightmost(_, _, _)
rightmost(t, n, count) ==
    IF t.right[n] # None THEN rightmost(t, t.right[n], count + 1)
    ELSE <<n, count>>

RECURSIVE leftmost(_, _, _)
leftmost(t, n, count) ==
    IF t.left[n] # None THEN leftmost(t, t.left[n], count + 1)
    ELSE <<n, count>>

\* A faulty delete_donor: chains of equal length give the predecessor.
delete_donor_tie_predecessor(t, current) ==
    LET p == rightmost(t, t.left[current], 0)
        s == leftmost(t, t.right[current], 0)
    IN IF p[2] >= s[2] THEN p[1] ELSE s[1]

\* A faulty delete_donor: the child at the head of the longer chain, which can
\* have two children itself.
delete_donor_nearest(t, current) ==
    LET p == rightmost(t, t.left[current], 0)
        s == leftmost(t, t.right[current], 0)
    IN IF p[2] > s[2] THEN t.left[current] ELSE t.right[current]

\* delete_helper, two children: the node whose value is swapped with current's.
delete_donor(t, current) ==
    LET p == rightmost(t, t.left[current], 0)
        s == leftmost(t, t.right[current], 0)
    IN IF p[2] > s[2] THEN p[1] ELSE s[1]

\* delete_helper, two children: current and the donor swap their values.
delete_swap(t, current, donor) ==
    [t EXCEPT !.data[current] = t.data[donor], !.data[donor] = t.data[current]]

\* delete_helper(current)
RECURSIVE delete_helper(_, _)
delete_helper(t0, current) ==
    LET t == Log(t0, "delete_helper")
        parent == t.parent[current]
    IN
    IF t.left[current] = None
    THEN IF t.right[current] = None
         THEN IF parent # None
              THEN delete_unlink(delete_rebalance_if_black(t, current),
                                 current, parent)
              ELSE [t EXCEPT !.root = None, !.ret = True]
         ELSE delete_splice_right(delete_rebalance_if_black(t, current),
                                  current, parent)
    ELSE IF t.right[current] = None
    THEN delete_splice_left(delete_rebalance_if_black(t, current),
                            current, parent)
    ELSE LET donor == delete_donor(t, current)
         IN delete_helper(Log(delete_swap(t, current, donor), "swap"), donor)

\* A faulty delete: an absent value is reported as removed.
delete_absent_true(t, d) ==
    LET current == search(t, d) IN
    IF current = False THEN [t EXCEPT !.ret = True]
    ELSE delete_helper(t, current)

\* delete(data)
delete(t, d) ==
    LET current == search(t, d) IN
    IF current = False THEN [t EXCEPT !.ret = False]
    ELSE delete_helper(t, current)

----------------------------------------------------------------------------
\* inorder_traverse_helper: the (data, color, depth) lines printed for the
\* subtree at current, in order.
RECURSIVE inorder_traverse_helper(_, _, _)
inorder_traverse_helper(t, current, depth) ==
    IF current = None THEN <<>>
    ELSE inorder_traverse_helper(t, t.left[current], depth + 1)
         \o << <<t.data[current], t.color[current], depth>> >>
         \o inorder_traverse_helper(t, t.right[current], depth + 1)

\* inorder_traverse
inorder_traverse(t) ==
    IF t.root # None
    THEN inorder_traverse_helper(t, t.left[t.root], 1)
         \o << <<t.data[t.root], t.color[t.root], 0>> >>
         \o inorder_traverse_helper(t, t.right[t.root], 1)
    ELSE <<>>

----------------------------------------------------------------------------
(***************************************************************************)
(* Node identity.  A node is a Python object: the program can only compare *)
(* two references, so a state is the same state under any renaming of its  *)
(* nodes.  After every call the nodes are renamed so that the nodes owned  *)
(* by the tree are 1..k in pre-order; the others follow in their old       *)
(* order and, being unreferenced objects, are returned to their blank      *)
(* state.                                                                  *)
(***************************************************************************)
RECURSIVE Preorder(_, _)
Preorder(t, n) ==
    IF n = None THEN <<>>
    ELSE <<n>> \o Preorder(t, t.left[n]) \o Preorder(t, t.right[n])

RECURSIVE Ascending(_)
Ascending(S) ==
    IF S = {} THEN <<>>
    ELSE LET m == CHOOSE x \in S : \A y \in S : x <= y
         IN <<m>> \o Ascending(S \ {m})

Relabel(t) ==
    LET owned == Preorder(t, t.root)
        k == Len(owned)
        old == owned \o Ascending(Nodes \ Reach(t))
        new(n) == IF n = None THEN None ELSE CHOOSE i \in Nodes : old[i] = n
    IN [t EXCEPT
          !.root = new(t.root),
          !.data = [i \in Nodes |-> IF i <= k THEN t.data[old[i]] ELSE 0],
          !.color = [i \in Nodes |-> IF i <= k THEN t.color[old[i]] ELSE RED],
          !.parent = [i \in Nodes |-> IF i <= k THEN new(t.parent[old[i]]) ELSE None],
          !.left = [i \in Nodes |-> IF i <= k THEN new(t.left[old[i]]) ELSE None],
          !.right = [i \in Nodes |-> IF i <= k THEN new(t.right[old[i]]) ELSE None]]

\* The tree object without the bookkeeping of a call, and a call on it.
Object(t) ==
    [root |-> t.root, black_height |-> t.black_height, data |-> t.data,
     color |-> t.color, parent |-> t.parent, left |-> t.left, right |-> t.right]

Call(s) ==
    [root |-> s.root, black_height |-> s.black_height, data |-> s.data,
     color |-> s.color, parent |-> s.parent, left |-> s.left, right |-> s.right,
     err |-> FALSE, ret |-> None, trace |-> <<>>, depths |-> <<>>]

----------------------------------------------------------------------------
\* self is the RedBlackTree; stored counts, for every value, the insert calls
\* minus the delete calls that returned True; last is the last call made, what
\* it returned and the places it went through; err tells whether it raised.
Init ==
    /\ self = Object(EmptyTree)
    /\ stored = [v \in Vals |-> 0]
    /\ last = [op |-> "init", arg |-> 0, ret |-> None, trace |-> <<>>]
    /\ err = FALSE

\* The call has returned, or raised, with the tree as t.
Returns(t, op, v) ==
    /\ self' = Object(Relabel(t))
    /\ err' = t.err
    /\ last' = [op |-> op, arg |-> v, ret |-> t.ret, trace |-> t.trace]

Insert(v) ==
    /\ Cardinality(Reach(self)) < MaxNodes
    /\ Returns(insert(Call(self), v), "insert", v)
    /\ self'.black_height <= MaxBlackHeight
    /\ stored' = [stored EXCEPT ![v] = @ + 1]

Delete(v) ==
    /\ Returns(delete(Call(self), v), "delete", v)
    /\ stored' = IF last'.ret = True THEN [stored EXCEPT ![v] = @ - 1]
                 ELSE stored

Search(v) ==
    /\ Returns(search_call(Call(self), v), "search", v)
    /\ UNCHANGED stored

Next ==
    \/ \E v \in Vals : Insert(v)
    \/ \E v \in Vals : Delete(v)
    \/ \E v \in Vals : Search(v)

Spec == Init /\ [][Next]_vars

\* The histories that consist of insert calls only.
InsertOnlyNext == \E v \in Vals : Insert(v)

InsertOnly == Init /\ [][InsertOnlyNext]_vars

----------------------------------------------------------------------------
\* What the properties below speak about.

\* The numbers of black nodes on the paths from n down to a missing child.
RECURSIVE BlackCounts(_, _)
BlackCounts(t, n) ==
    IF n = None THEN {0}
    ELSE LET below == BlackCounts(t, t.left[n]) \cup BlackCounts(t, t.right[n])
         IN {c + (IF t.color[n] = BLACK THEN 1 ELSE 0) : c \in below}

\* The children n has.
Children(t, n) == {t.left[n], t.right[n]} \ {None}

\* The values stored in the subtree at n.
SubtreeValues(t, n) == {t.data[m] : m \in Subtree(t, n)}

\* The last call went through the place named e.
Went(e) == \E i \in 1..Len(last.trace) : last.trace[i] = e

\* C1: after any sequence of insert and delete calls on an empty tree, no red
\* node of the tree has a red child.
C1_NoRedRed ==
    \A n \in Reach(self) :
        self.color[n] = RED => \A c \in Children(self, n) : self.color[c] # RED

\* A delete whose rebalancing rotated a red sibling has returned, and the tree
\* has a red node with children.
C1_Witness ==
    /\ last.op = "delete" /\ last.ret = True
    /\ Went("red_sibling")
    /\ \E n \in Reach(self) : self.color[n] = RED /\ Children(self, n) # {}

\* C2: after any sequence of insert and delete calls, for every node all paths
\* from it down to a missing child hold the same number of black nodes.
C2_BlackHeightUniform ==
    \A n \in Reach(self) : Cardinality(BlackCounts(self, n)) = 1

\* A delete of a black leaf whose rebalancing went up to the parent has
\* returned, and the tree has paths of different lengths.
C2_Witness ==
    /\ last.op = "delete" /\ last.ret = True
    /\ Went("recurse")
    /\ \E n \in Reach(self) : Cardinality(Children(self, n)) = 1

\* C3: after every insert or delete call, a non-empty tree has a black root,
\* and the root is the only node of the tree without a parent.
C3_RootBlackAndOnlyOrphan ==
    self.root # None =>
        /\ self.color[self.root] = BLACK
        /\ \A n \in Reach(self) : self.parent[n] = None <=> n = self.root

\* A call that rotated has returned, leaving a root that has children and
\* does not hold the value of the call.
C3_Witness ==
    /\ last.op \in {"insert", "delete"}
    /\ Went("rotation")
    /\ self.root # None /\ Children(self, self.root) # {}
    /\ self.data[self.root] # last.arg

\* The values of the tree in order, as inorder_traverse prints them.
InorderValues(t) ==
    LET lines == inorder_traverse(t) IN [i \in 1..Len(lines) |-> lines[i][1]]

\* The values counted by bag from v upwards, in increasing order.
RECURSIVE SortedFrom(_, _)
SortedFrom(bag, v) ==
    IF v > MaxVal THEN <<>>
    ELSE [i \in 1..bag[v] |-> v] \o SortedFrom(bag, v + 1)

\* The number of nodes on the longest path from n down to a missing child.
RECURSIVE Height(_, _)
Height(t, n) ==
    IF n = None THEN 0
    ELSE LET l == Height(t, t.left[n])
             r == Height(t, t.right[n])
         IN 1 + (IF l > r THEN l ELSE r)

\* C4 as stated: for every node, the values of its left subtree are strictly
\* smaller than its value and those of its right subtree are not smaller.
C4_StrictLeft ==
    \A n \in Reach(self) :
        /\ \A x \in SubtreeValues(self, self.left[n]) : x < self.data[n]
        /\ \A x \in SubtreeValues(self, self.right[n]) : x >= self.data[n]

\* C4: after any sequence of insert and delete calls (duplicates allowed), for
\* every node the values of its left subtree are smaller than or equal to its
\* value and those of its right subtree are greater than or equal to it.
C4_Order ==
    \A n \in Reach(self) :
        /\ \A x \in SubtreeValues(self, self.left[n]) : x <= self.data[n]
        /\ \A x \in SubtreeValues(self, self.right[n]) : x >= self.data[n]

\* A call has returned with a copy of a node's value in its left subtree and
\* other values on both sides of it.
C4_Witness ==
    /\ last.op \in {"insert", "delete"}
    /\ \E n \in Reach(self) :
          /\ self.data[n] \in SubtreeValues(self, self.left[n])
          /\ \E x \in SubtreeValues(self, self.left[n]) : x < self.data[n]
          /\ \E x \in SubtreeValues(self, self.right[n]) : x > self.data[n]

\* C5: after any sequence of insert and delete calls, the in-order sequence of
\* the stored values is non-decreasing and is the sorted multiset of the values
\* inserted minus the values whose delete returned True.
C5_InorderIsSortedBag ==
    LET vs == InorderValues(self) IN
    /\ \A i \in 1..(Len(vs) - 1) : vs[i] <= vs[i + 1]
    /\ vs = SortedFrom(stored, 1)

\* A delete of a node with two children has returned, and the tree holds a
\* value twice.
C5_Witness ==
    /\ last.op = "delete" /\ last.ret = True
    /\ Went("swap")
    /\ \E v \in Vals : stored[v] >= 2
    /\ \E v \in Vals : stored[v] = 0

\* C6: search(v) returns a node holding v exactly when a copy of v is stored,
\* and False otherwise; it finds v right after insert(v), and returns False
\* right after the delete(v) that removed the last copy.
C6_SearchFindsStored ==
    /\ \A v \in Vals :
          LET r == search(Call(self), v) IN
          IF stored[v] > 0
          THEN r \in Reach(self) /\ self.data[r] = v
          ELSE r = False
    /\ last.op = "insert" => search(Call(self), last.arg) # False
    /\ (last.op = "delete" /\ last.ret = True /\ stored[last.arg] = 0)
          => search(Call(self), last.arg) = False

\* A search has found a value stored twice below the root, while another value
\* is absent.
C6_Witness ==
    /\ last.op = "search"
    /\ last.ret # False /\ last.ret # self.root
    /\ stored[last.arg] >= 2
    /\ \E v \in Vals : stored[v] = 0

\* C7: delete(v) returns True exactly when v was stored when it was called;
\* when v is absent it returns False and changes nothing of the tree.
C7_DeleteResult ==
    [][last'.op = "delete" =>
          LET present == \E n \in Reach(self) : self.data[n] = last'.arg IN
          /\ last'.ret \in {True, False}
          /\ last'.ret = True <=> present
          /\ ~present => self' = self]_vars

\* A delete of an absent value has returned False on a tree with several nodes.
C7_Witness ==
    /\ last.op = "delete" /\ last.ret = False
    /\ Cardinality(Reach(self)) >= 3

\* C8: after any sequence of insert and delete calls, black_height is the
\* number of black nodes on every path from the root to a missing child.
C8_TrackedBlackHeight ==
    BlackCounts(self, self.root) = {self.black_height}

\* C9: a tree of n nodes has a height h with 2^h <= (n+1)^2.
C9_HeightBound ==
    LET n == Cardinality(Reach(self))
        h == Height(self, self.root)
    IN 2 ^ h <= (n + 1) * (n + 1)

\* A delete has returned leaving a tree of height 4 that has at most 6 nodes,
\* the fewest a red-black tree of that height can have.
C9_Witness ==
    /\ last.op = "delete" /\ last.ret = True
    /\ Height(self, self.root) = 4
    /\ Cardinality(Reach(self)) <= 6

\* C10: no insert or delete call reads an attribute of an absent node.
C10_NoNoneDereference == err = FALSE

\* A delete has returned after rotating the inside nephew and then the
\* sibling, whose outside child it colored black.
C10_Witness ==
    /\ last.op = "delete" /\ last.ret = True
    /\ Went("nephew") /\ Went("final")
    /\ ~err

----------------------------------------------------------------------------
\* The tree after insert(a), insert(b), insert(c) made in this order on t.
InsertThree(t, a, b, c) == insert(insert(insert(Call(t), a), b), c)

\* The root of t holds b and is black, its left child holds a and its right
\* child holds c, and both children are red and have no children.
RootWithRedLeaves(t, a, b, c) ==
    /\ t.root # None
    /\ t.data[t.root] = b /\ t.color[t.root] = BLACK
    /\ t.left[t.root] # None /\ t.right[t.root] # None
    /\ t.data[t.left[t.root]] = a /\ t.data[t.right[t.root]] = c
    /\ \A n \in Children(t, t.root) :
           t.color[n] = RED /\ Children(t, n) = {}

\* C11: whenever the tree is empty, for any three values a < b < c the calls
\* insert(a), insert(b), insert(c) leave a tree whose root holds b and is
\* black, with left child a and right child c, both red and childless.
C11_AscendingTriple ==
    self.root = None =>
        \A a, b, c \in Vals :
            (a < b /\ b < c) => RootWithRedLeaves(InsertThree(self, a, b, c), a, b, c)

\* The third of three increasing inserts has returned: it put the largest
\* value under a red right child, rotated, and left a tree of three nodes.
C11_Witness ==
    /\ last.op = "insert" /\ Went("outside") /\ Went("rotation")
    /\ Cardinality(Reach(self)) = 3
    /\ \E a, b \in Vals :
          a < b /\ b < last.arg /\ RootWithRedLeaves(self, a, b, last.arg)

\* C12: after every insert or delete call, parent and child links agree for
\* every node of the tree: a left or right child of n has n as its parent,
\* and the root has no parent.
C12_LinksAgree ==
    /\ \A n \in Reach(self) : \A c \in Children(self, n) : self.parent[c] = n
    /\ self.root # None => self.parent[self.root] = None

\* A delete of a node with two children has returned after swapping values
\* and rotating twice in its rebalancing; the tree still has five nodes or more.
C12_Witness ==
    /\ last.op = "delete" /\ last.ret = True
    /\ Went("swap") /\ Went("nephew")
    /\ Cardinality(Reach(self)) >= 5

\* C13: whenever insert is called on a tree whose root is None, also one that
\* earlier delete calls have emptied, the new node is a black root without
\* children and black_height is 1 when insert returns.
C13_InsertIntoEmpty ==
    [][(self.root = None /\ last'.op = "insert") =>
          /\ self'.root # None
          /\ self'.data[self'.root] = last'.arg
          /\ self'.color[self'.root] = BLACK
          /\ self'.parent[self'.root] = None
          /\ Children(self', self'.root) = {}
          /\ self'.black_height = 1]_vars

\* r is t after rotation(n): the values of the tree are in the same order, n
\* is where its parent was (under the grandparent on the same side, or root
\* without a parent), and the former parent is the child of n on the side
\* opposite to the one n was on.
Promoted(t, r, n) ==
    LET parent == t.parent[n]
        grandparent == t.parent[parent]
    IN /\ ~r.err
       /\ InorderValues(r) = InorderValues(t)
       /\ r.parent[n] = grandparent
       /\ IF grandparent = None
          THEN t.root = parent /\ r.root = n
          ELSE /\ r.root = t.root
               /\ IF t.left[grandparent] = parent
                  THEN r.left[grandparent] = n
                       /\ r.right[grandparent] = t.right[grandparent]
                  ELSE r.right[grandparent] = n
                       /\ r.left[grandparent] = t.left[grandparent]
       /\ r.parent[parent] = n
       /\ IF t.right[parent] = n
          THEN r.left[n] = parent /\ r.right[n] = t.right[n]
          ELSE r.right[n] = parent /\ r.left[n] = t.left[n]

\* C14: in every tree reached by insert and delete (its links agree), for
\* every node n that has a parent, rotation(n) keeps the in-order sequence of
\* the values of the whole tree and leaves n in its former parent's position
\* with the former parent as its child.
C14_RotationPromotes ==
    \A n \in Reach(self) :
        self.parent[n] # None =>
            Promoted(Call(self), rotation(Call(self), n), n)

\* A call that rotated has returned a tree with a left child n that has a
\* grandparent and a right subtree, which rotation(n) hands over to the
\* former parent of n.
C14_Witness ==
    /\ last.op \in {"insert", "delete"} /\ Went("rotation")
    /\ \E n \in Reach(self) :
          /\ self.parent[n] # None /\ self.parent[self.parent[n]] # None
          /\ self.left[self.parent[n]] = n
          /\ self.right[n] # None
          /\ rotation(Call(self), n).left[self.parent[n]] = self.right[n]
          /\ rotation(Call(self), n).parent[self.right[n]] = self.parent[n]

\* The links, as <<field, node>>, that differ between t and r.
ChangedLinks(t, r) ==
    {<<"left", m>> : m \in {m \in Nodes : r.left[m] # t.left[m]}}
    \cup {<<"right", m>> : m \in {m \in Nodes : r.right[m] # t.right[m]}}
    \cup {<<"parent", m>> : m \in {m \in Nodes : r.parent[m] # t.parent[m]}}

\* The links rotation(n) may change in t: those of n and of its parent, the
\* grandparent's link to the parent, and the parent link of the root of the
\* middle subtree (the subtree of n on the side of its parent).
RotationLinks(t, n) ==
    LET parent == t.parent[n]
        grandparent == IF parent = None THEN None ELSE t.parent[parent]
        middle == IF parent = None THEN None
                  ELSE IF t.right[parent] = n THEN t.left[n] ELSE t.right[n]
    IN {<<f, m>> : f \in {"left", "right", "parent"}, m \in {n, parent} \ {None}}
       \cup (IF grandparent = None THEN {}
             ELSE {<<IF t.left[grandparent] = parent THEN "left" ELSE "right",
                     grandparent>>})
       \cup (IF middle = None THEN {} ELSE {<<"parent", middle>>})

\* r is t after rotation(n): colors, values and black_height are the same and
\* only links of RotationLinks differ (the root pointer may differ as well).
RotationFrame(t, r, n) ==
    /\ ~r.err
    /\ r.color = t.color /\ r.data = t.data
    /\ r.black_height = t.black_height
    /\ ChangedLinks(t, r) \subseteq RotationLinks(t, n)
    /\ r.root # t.root => (t.root = t.parent[n] /\ r.root = n)

\* C15: rotation(n), for every node n of every tree reached by insert and
\* delete, changes no color, no value and not black_height, and changes no
\* links but those of n, of its parent, the grandparent's link to the parent,
\* the parent link of the middle subtree's root, and the root pointer.
C15_RotationFrame ==
    \A n \in Reach(self) :
        RotationFrame(Call(self), rotation(Call(self), n), n)

\* A call that rotated has returned a tree in which some rotation changes
\* six links (the most it can: two of the node, two of its parent, one of the
\* grandparent, one of the middle subtree), and another changes the root.
C15_Witness ==
    /\ last.op \in {"insert", "delete"} /\ Went("rotation")
    /\ \E n \in Reach(self) :
          Cardinality(ChangedLinks(Call(self), rotation(Call(self), n))) = 6
    /\ \E n \in Reach(self) : rotation(Call(self), n).root # self.root

\* The number of times e occurs in seq.
Count(seq, e) == Cardinality({i \in 1..Len(seq) : seq[i] = e})

\* Every rebalancing call of the call that gave r, after the first, was made
\* on the node step levels above the node of the call that made it.
ClimbsBy(r, step) ==
    \A i \in 1..(Len(r.depths) - 1) : r.depths[i + 1] = r.depths[i] - step

\* r is t after insert: the call returned, every recursive insert_rebalance
\* was made on the grandparent, and there are no more of them than t is high.
InsertClimbs(t, r) ==
    /\ ~r.err /\ r.ret = None
    /\ Len(r.depths) = Count(r.trace, "insert_rebalance")
    /\ ClimbsBy(r, 2)
    /\ Len(r.depths) <= Height(t, t.root)

\* r is t after delete: the call returned, every recursive delete_rebalance
\* was made on the parent, there are no more of them than t is high, and
\* delete_helper called itself once at most.
DeleteClimbs(t, r) ==
    /\ ~r.err /\ r.ret \in {True, False}
    /\ Len(r.depths) = Count(r.trace, "delete_rebalance")
    /\ ClimbsBy(r, 1)
    /\ Len(r.depths) <= Height(t, t.root)
    /\ Count(r.trace, "swap") <= 1
    /\ Count(r.trace, "delete_helper") <= 1 + Count(r.trace, "swap")

\* C16: every insert and delete call on a reachable tree returns; each
\* recursive call of insert_rebalance is made on the grandparent and each
\* recursive call of delete_rebalance on the parent of the current call's
\* node, so that there are at most as many as the tree is high, and the
\* two-children branch of delete_helper is taken at most once.
C16_RecursionClimbs ==
    /\ Cardinality(Reach(self)) < MaxNodes =>
           \A v \in Vals : InsertClimbs(Call(self), insert(Call(self), v))
    /\ \A v \in Vals : DeleteClimbs(Call(self), delete(Call(self), v))

\* A delete has returned that swapped values with a donor and then called
\* delete_rebalance on the donor, on its parent and on its grandparent.
C16_Witness ==
    /\ last.op = "delete" /\ last.ret = True
    /\ Went("swap")
    /\ Count(last.trace, "delete_rebalance") >= 3

\* C17: during one insert call rotation is called at most twice, and once
\* insert_rebalance has taken the rotate case (inside or outside child, the
\* uncle black or absent) insert_rebalance is not called again.
C17_RotateCaseIsLast ==
    last.op = "insert" =>
        /\ Count(last.trace, "rotation") <= 2
        /\ \A i \in 1..Len(last.trace) :
               last.trace[i] \in {"inside", "outside"} =>
                   \A j \in (i + 1)..Len(last.trace) :
                       last.trace[j] = "rotation"

\* An insert has returned whose insert_rebalance recolored, went on from the
\* grandparent, found an inside child there and rotated twice.
C17_Witness ==
    /\ last.op = "insert"
    /\ Count(last.trace, "insert_rebalance") >= 2
    /\ Went("inside")
    /\ Count(last.trace, "rotation") = 2

\* The nodes of the subtree at n, in order.
RECURSIVE InorderNodes(_, _)
InorderNodes(t, n) ==
    IF n = None THEN <<>>
    ELSE InorderNodes(t, t.left[n]) \o <<n>> \o InorderNodes(t, t.right[n])

\* The node that comes k places after n in the order of the tree.
Neighbour(t, n, k) ==
    LET order == InorderNodes(t, t.root)
    IN order[(CHOOSE i \in 1..Len(order) : order[i] = n) + k]

\* The number of links from the left child of n down to the in-order
\* predecessor of n, and from its right child down to its successor.
PredecessorChain(t, n) ==
    Depth(t, Neighbour(t, n, -1), MaxNodes) - Depth(t, t.left[n], MaxNodes)

SuccessorChain(t, n) ==
    Depth(t, Neighbour(t, n, 1), MaxNodes) - Depth(t, t.right[n], MaxNodes)

\* The node the claim names for a found node with two children.
Donor(t, found) ==
    IF PredecessorChain(t, found) > SuccessorChain(t, found)
    THEN Neighbour(t, found, -1) ELSE Neighbour(t, found, 1)

\* r is t after the delete that found a node with two children, and donor is
\* the node the claim names: donor has one child at most and is the node that
\* has left the tree; the swap changes nothing but the values of the two nodes;
\* the found node is still in the tree and holds the donor's value.
DonorUnlinked(t, r, found, donor) ==
    /\ ~r.err /\ r.ret = True
    /\ Cardinality(Children(t, donor)) <= 1
    /\ Reach(r) = Reach(t) \ {donor}
    /\ delete_swap(t, found, donor) =
          [t EXCEPT !.data[found] = t.data[donor], !.data[donor] = t.data[found]]
    /\ delete_swap(t, found, donor).data[found] = t.data[donor]
    /\ \A f \in {"color", "parent", "left", "right"} :
           delete_swap(t, found, donor)[f] = t[f]
    /\ r.data[found] = t.data[donor]

OnlyChildSpliced(t, r, removed) ==
    LET child == CHOOSE c \in Children(t, removed) : TRUE
        parent == t.parent[removed]
    IN /\ ~r.err /\ r.ret = True
       /\ r.color[child] = BLACK
       /\ r.parent[child] = parent
       /\ IF parent = None
          THEN r.root = child
          ELSE /\ r.root = t.root
               /\ IF t.left[parent] = removed
                  THEN r.left[parent] = child /\ r.right[parent] = t.right[parent]
                  ELSE r.right[parent] = child /\ r.left[parent] = t.left[parent]
       /\ Count(r.trace, "rotation") = 0
       /\ \A n \in Nodes \ {child} : r.color[n] = t.color[n]

\* r is t after a delete: if the node that left the tree was black and had
\* exactly one child, that child has been spliced in as OnlyChildSpliced says.
SplicedIfOnlyChild(t, r) ==
    \A removed \in Reach(t) \ Reach(r) :
        (t.color[removed] = BLACK /\ Cardinality(Children(t, removed)) = 1)
            => OnlyChildSpliced(t, r, removed)

\* C19: in any reachable tree, a delete that removes a black node with
\* exactly one child colors that child black and puts it in the removed
\* node's position (under the same parent on the same side, or as the root
\* without a parent), makes no rotation and changes no other node's color.
C19_OnlyChildSpliced ==
    \A v \in Vals : SplicedIfOnlyChild(Call(self), delete(Call(self), v))

\* A delete has returned that found a black node with one red child below
\* the root, colored the child black and spliced it in, without a swap.
C19_Witness ==
    /\ last.op = "delete" /\ last.ret = True
    /\ last.trace = <<"delete_helper", "delete_rebalance", "red_child">>
    /\ self.root # None /\ self.data[self.root] # last.arg
    /\ Cardinality(Reach(self)) >= 4

\* The k-th node above n (n itself for k = 0).
RECURSIVE Ancestor(_, _, _)
Ancestor(t, n, k) == IF k = 0 THEN n ELSE Ancestor(t, t.parent[n], k - 1)

\* The other child of the parent of n.
Sibling(t, n) ==
    IF t.left[t.parent[n]] = n THEN t.right[t.parent[n]] ELSE t.left[t.parent[n]]

\* The last Count(trace, "recurse") entries of trace are "sibling_red": every
\* call that made a recursive call colored its sibling red after it returned.
RedAfterReturn(trace) ==
    \A i \in (Len(trace) - Count(trace, "recurse") + 1)..Len(trace) :
        trace[i] = "sibling_red"

\* C20 as stated: in the branch of delete_rebalance where the sibling, its
\* children and the parent are black, the sibling is red when the recursive
\* delete_rebalance(parent) call is made, and is colored red again after that
\* call returns.
C20_RedBeforeAndAfter ==
    last.op = "delete" =>
        /\ \A i \in 1..Len(last.trace) :
               last.trace[i] = "recurse" =>
                   last.trace[i + 1] = "recurse_sibling_red"
        /\ RedAfterReturn(last.trace)

\* r is t after a delete: whenever delete_rebalance called itself on the
\* parent, the sibling was black at that moment, the call colored it red
\* after the recursive call returned, and it is red when delete returns.
RedOnlyAfter(t, r) ==
    /\ ~r.err
    /\ \A i \in 1..Len(r.trace) :
           r.trace[i] = "recurse" =>
               /\ r.trace[i + 1] = "recurse_sibling_black"
               /\ r.trace[i + 2] = "delete_rebalance"
    /\ Count(r.trace, "recurse_sibling_red") = 0
    /\ RedAfterReturn(r.trace)
    /\ \A removed \in Reach(t) \ Reach(r) :
           \A k \in 0..(Count(r.trace, "recurse") - 1) :
               r.color[Sibling(t, Ancestor(t, removed, k))] = RED

\* C20: in the branch of delete_rebalance where the sibling, its children and
\* the parent are black, the sibling is still black when the recursive
\* delete_rebalance(parent) call is made; it is colored red once, after that
\* call has returned, and is red when delete returns.
C20_RedOnlyAfter ==
    \A v \in Vals : RedOnlyAfter(Call(self), delete(Call(self), v))

\* A delete has returned whose delete_rebalance called itself on the parent
\* and again on the grandparent, and colored two siblings red on the way back.
C20_Witness ==
    /\ last.op = "delete" /\ last.ret = True
    /\ Count(last.trace, "recurse") >= 2
    /\ Count(last.trace, "recurse_sibling_black") >= 2
    /\ Count(last.trace, "sibling_red") >= 2
    /\ Cardinality({n \in Reach(self) : self.color[n] = RED}) >= 2

\* C21: after each call of a sequence of insert calls on the initially empty
\* tree (no delete), black_height is the number of black nodes on every path
\* from the root to a missing child.
C21_InsertOnlyBlackHeight ==
    \A c \in BlackCounts(self, self.root) : c = self.black_height

\* An insert has returned whose recoloring went up from the grandparent and
\* reached the root, so that black_height is 3.
C21_Witness ==
    /\ last.op = "insert"
    /\ Count(last.trace, "recolor") >= 2
    /\ self.black_height = 3
    /\ Cardinality(Reach(self)) >= 6

\* C22: during one delete call rotation is called at most three times over
\* all the delete_rebalance calls it makes: at most once for a red sibling,
\* at most once for a red inside nephew, at most once at the sibling at the
\* end, and nowhere else.
C22_DeleteRotations ==
    last.op = "delete" =>
        /\ Count(last.trace, "rotation") <= 3
        /\ Count(last.trace, "red_sibling") <= 1
        /\ Count(last.trace, "nephew") <= 1
        /\ Count(last.trace, "final") <= 1
        /\ Count(last.trace, "rotation") =
              Count(last.trace, "red_sibling") + Count(last.trace, "nephew")
              + Count(last.trace, "final")

\* A delete has returned that rotated three times: for a red sibling, for the
\* red inside nephew of the new sibling, and at the end.
C22_Witness ==
    /\ last.op = "delete" /\ last.ret = True
    /\ Went("red_sibling") /\ Went("nephew") /\ Went("final")
    /\ Count(last.trace, "rotation") = 3

\* C23: search(v) does not modify the tree: root, black_height and the value,
\* color and left, right and parent links of every node are after the call
\* what they were before it, whether v is found or not.
C23_SearchFrame ==
    [][last'.op = "search" =>
          /\ self' = self
          /\ Object(search_call(Call(self), last'.arg)) = self
          /\ stored' = stored]_vars

\* A search has returned False on a tree of five nodes or more that has red
\* and black nodes and holds another value twice.
C23_Witness ==
    /\ last.op = "search" /\ last.ret = False
    /\ Cardinality(Reach(self)) >= 5
    /\ \E n \in Reach(self) : self.color[n] = RED
    /\ \E v \in Vals : stored[v] >= 2

====
